---------------------------- MODULE Spec2Model ----------------------------
(***************************************************************************)
(* A model of showyourwork's environment-provisioning helper               *)
(* (cli/conda_env.py), its TeX wrapper (workflow/utils/tex.py) and its     *)
(* manuscript preprocessor (workflow/scripts/preprocess.py).               *)
(*                                                                         *)
(* Every component has its own variable and its own specification; a       *)
(* specification leaves the variables of the other components at Idle.     *)
(* Strings that the code inspects character by character (version          *)
(* specifiers, script names, paths) are sequences of one-character         *)
(* strings.                                                                *)
(***************************************************************************)
EXTENDS Integers, Sequences, FiniteSets, TLC

VARIABLES ver, conda, tex, ext, zen, ovl, fig, prep

vars == <<ver, conda, tex, ext, zen, ovl, fig, prep>>

\* The value of a component's variable in the specifications of the others.
Idle == [pc |-> "idle"]

(***************************************************************************)
(* Generic helpers on sequences.                                           *)
(***************************************************************************)
BoundedSeq(S, n) == UNION {[1..k -> S] : k \in 0..n}

MinOf(S) == CHOOSE x \in S : \A y \in S : x <= y

Last(s) == s[Len(s)]

Front(s) == SubSeq(s, 1, Len(s) - 1)

\* str.split(sep): the pieces of s between the occurrences of sep.
RECURSIVE SplitOn(_, _)
SplitOn(s, sep) ==
    LET idx == {i \in 1..Len(s) : s[i] = sep}
    IN  IF idx = {} THEN <<s>>
        ELSE LET i == MinOf(idx)
             IN  <<SubSeq(s, 1, i - 1)>> \o SplitOn(SubSeq(s, i + 1, Len(s)), sep)

\* sep.join(parts)
RECURSIVE JoinWith(_, _)
JoinWith(parts, sep) ==
    IF Len(parts) = 0 THEN <<>>
    ELSE IF Len(parts) = 1 THEN parts[1]
    ELSE parts[1] \o <<sep>> \o JoinWith(Tail(parts), sep)

(***************************************************************************)
(* cli/conda_env.py: resolution of `showyourwork.version`.                 *)
(***************************************************************************)
Digits == {"0", "1", "2", "3", "4", "5", "6", "7", "8", "9"}

HexDigits == Digits \cup {"a", "b", "c", "d", "e", "f"}

\* The bounds {5,40} of the commit pattern.
HexMin == 5

HexMax == 40

\* The strings the code compares the specifier with.
AnyStr == <<"a", "n", "y">>

LatestStr == <<"l", "a", "t", "e", "s", "t">>

\* user_config.get("showyourwork", {}).get("version", "any"); Absent stands
\* for a configuration without the key (no string equals it).
Absent == <<"<absent>">>

GetVersion(v) == IF v = Absent THEN AnyStr ELSE v

\* re.match("(?:(\d+\.[.\d]*\d+))", s): some PREFIX s[1..k] of s is
\* digits, a dot, any run of dots and digits, and ends with a digit.
VersionPrefixAt(s, k) ==
    \E i \in 1..k :
        /\ i + 2 <= k
        /\ \A j \in 1..i : s[j] \in Digits
        /\ s[i + 1] = "."
        /\ \A j \in (i + 2)..k : s[j] \in Digits \cup {"."}
        /\ s[k] \in Digits

MatchVersion(s) == \E k \in 1..Len(s) : VersionPrefixAt(s, k)

\* re.match("[0-9a-f]{5,40}", s): s starts with at least 5 hex digits.
MatchSha(s) == Len(s) >= HexMin /\ \A j \in 1..HexMin : s[j] \in HexDigits

\* The repository root, an absolute path ("/r").
RepoStr == <<"/", "r">>

\* Path(s).is_absolute()
IsAbsolute(s) == Len(s) > 0 /\ s[1] = "/"

\* Path.resolve() on the parts of an absolute path: "" and "." are dropped,
\* ".." removes the part before it (and stays at the root).
RECURSIVE ResolveParts(_, _)
ResolveParts(parts, stack) ==
    IF Len(parts) = 0 THEN stack
    ELSE LET p == parts[1]
         IN  IF p = <<>> \/ p = <<".">> THEN ResolveParts(Tail(parts), stack)
             ELSE IF p = <<".", ".">>
                  THEN ResolveParts(Tail(parts),
                                    IF Len(stack) = 0 THEN stack ELSE Front(stack))
             ELSE ResolveParts(Tail(parts), Append(stack, p))

\* (paths.user().repo / s).resolve(), as a string.
ResolveInRepo(s) ==
    <<"/">> \o JoinWith(ResolveParts(SplitOn(RepoStr \o <<"/">> \o s, "/"), <<>>), "/")

\* The package specifier; form stands for the literal text around arg:
\*   unpinned  "showyourwork"
\*   main      "git+https://...showyourwork.git@main#egg=showyourwork"
\*   pin       "showyourwork==" arg
\*   commit    "git+https://...showyourwork.git@" arg "#egg=showyourwork"
\*   editable  "-e " arg
Specifier(form, arg) == [form |-> form, arg |-> arg]

syw_spec(v) ==
    LET s == GetVersion(v)
    IN  IF s = AnyStr THEN Specifier("unpinned", <<>>)
        ELSE IF s = LatestStr THEN Specifier("main", <<>>)
        ELSE IF MatchVersion(s) THEN Specifier("pin", s)
        ELSE IF MatchSha(s) THEN Specifier("commit", s)
        ELSE IF IsAbsolute(s) THEN Specifier("editable", s)
        ELSE Specifier("editable", ResolveInRepo(s))

\* The version strings tried: every string of at most MaxVerLen characters
\* of VerAlphabet (a digit, a dot, a hex letter, a path separator), the two
\* keywords, and a configuration without the key.
MaxVerLen == 6

VerAlphabet == {"1", ".", "a", "/"}

VersionInputs == BoundedSeq(VerAlphabet, MaxVerLen) \cup {Absent, AnyStr, LatestStr}

InitVersion ==
    /\ ver \in {[pc |-> "config", version |-> v] : v \in VersionInputs}
    /\ conda = Idle /\ tex = Idle /\ ext = Idle
    /\ zen = Idle /\ ovl = Idle /\ fig = Idle /\ prep = Idle

ResolveVersion ==
    /\ ver.pc = "config"
    /\ ver' = [pc |-> "resolved", version |-> ver.version,
               spec |-> syw_spec(ver.version)]
    /\ UNCHANGED <<conda, tex, ext, zen, ovl, fig, prep>>

NextVersion == ResolveVersion

SpecVersion == InitVersion /\ [][NextVersion]_vars

(***************************************************************************)
(* cli/conda_env.py: run().                                                *)
(***************************************************************************)
\* A dependency entry of environment.yml: a bare string, or a mapping that
\* may hold a `pip` list.
StrDep(name) == [type |-> "str", name |-> name, haspip |-> FALSE, pip |-> <<>>]

DictDep(haspip, pip) == [type |-> "dict", name |-> "", haspip |-> haspip, pip |-> pip]

PipLiteral(name) == Specifier("literal", <<name>>)

\* for dep in syw_env["dependencies"]:
\*     if type(dep) is dict and "pip" in dep: dep["pip"].append(syw_spec)
AppendSpec(deps, spec) ==
    [i \in 1..Len(deps) |->
        IF deps[i].type = "dict" /\ deps[i].haspip
        THEN [deps[i] EXCEPT !.pip = Append(@, spec)]
        ELSE deps[i]]

\* A file on disk: missing, or the text of an environment (yaml.dump).
NoFile == [exists |-> FALSE, dependencies |-> <<>>]

EnvFile(deps) == [exists |-> TRUE, dependencies |-> deps]

\* cached_envfile.exists() and filecmp.cmp(cached, workflow, shallow=False)
CacheHitExistsOnly(cached, workflow) == cached.exists

cache_hit(cached, workflow) == cached.exists /\ cached = workflow

\* The bundled templates tried: no `pip` mapping, one, two, and a mapping
\* without a `pip` key before the one that has it.
Templates ==
    { <<StrDep("python")>>,
      <<StrDep("python"), DictDep(TRUE, <<PipLiteral("p")>>)>>,
      <<DictDep(TRUE, <<>>), StrDep("python"), DictDep(TRUE, <<PipLiteral("p")>>)>>,
      <<DictDep(FALSE, <<>>), DictDep(TRUE, <<PipLiteral("p")>>)>> }

\* The `showyourwork.version` values tried by run().
RunVersions == {Absent, LatestStr, <<"1", ".", "1">>, <<"a", "/", "1">>}

\* What a run of the environment manager's create/update can leave behind:
\* its exit status, and whether the environment directory exists afterwards.
ExitCodes == {0, 1}

\* The environment, its cached specification and this build's
\* specification before any run, in whatever state earlier builds left them.
InitRun ==
    /\ conda \in {[pc |-> "ready", env |-> e, cached |-> c, workflow |-> NoFile,
                   log |-> <<>>, pre |-> [env |-> e, cached |-> c],
                   version |-> Absent, template |-> <<>>,
                   infoExit |-> 0, provExit |-> 0, cmdExit |-> 0, result |-> 0] :
                  e \in BOOLEAN,
                  c \in {NoFile} \cup {EnvFile(AppendSpec(t, syw_spec(Absent))) : t \in Templates}}
    /\ ver = Idle /\ tex = Idle /\ ext = Idle
    /\ zen = Idle /\ ovl = Idle /\ fig = Idle /\ prep = Idle

\* One call of run(command): infoExit, provExit and cmdExit are the exit
\* statuses of `conda info --base`, of the create/update command (if one
\* is issued) and of the forwarded command; dirLeft tells whether a failed
\* create leaves the environment directory behind.
Run(version, template, infoExit, provExit, dirLeft, cmdExit) ==
    LET spec     == syw_spec(version)
        written  == EnvFile(AppendSpec(template, spec))
        pre      == [env |-> conda.env, cached |-> conda.cached]
        hit      == cache_hit(conda.cached, written)
        issued   == IF ~conda.env THEN <<"create">>
                    ELSE IF ~hit THEN <<"update">> ELSE <<>>
    IN  /\ conda.pc # "idle"
        /\ conda' =
            IF infoExit # 0
            THEN \* subprocess.check_output raises CalledProcessError
                 [conda EXCEPT !.pc = "raised", !.log = <<"info">>, !.pre = pre,
                               !.version = version, !.template = template,
                               !.infoExit = infoExit, !.provExit = 0,
                               !.cmdExit = 0, !.result = 0]
            ELSE [pc       |-> "returned",
                  env      |-> IF conda.env THEN TRUE
                               ELSE (provExit = 0 \/ dirLeft),
                  cached   |-> IF issued = <<>> THEN conda.cached ELSE written,
                  workflow |-> written,
                  log      |-> <<"info">> \o issued \o <<"forward">>,
                  pre      |-> pre,
                  version  |-> version,
                  template |-> template,
                  infoExit |-> infoExit,
                  provExit |-> IF issued = <<>> THEN 0 ELSE provExit,
                  cmdExit  |-> cmdExit,
                  result   |-> cmdExit]
        /\ UNCHANGED <<ver, tex, ext, zen, ovl, fig, prep>>

\* The cached specification removed from outside (the cache directory is
\* never torn down by run() itself).
CacheRemoved ==
    /\ conda.pc # "idle"
    /\ conda.cached.exists
    /\ conda' = [conda EXCEPT !.pc = "ready", !.cached = NoFile]
    /\ UNCHANGED <<ver, tex, ext, zen, ovl, fig, prep>>

NextRun ==
    \/ \E v \in RunVersions, t \in Templates, ie \in ExitCodes,
          pe \in ExitCodes, d \in BOOLEAN, ce \in ExitCodes :
            Run(v, t, ie, pe, d, ce)
    \/ CacheRemoved

SpecRun == InitRun /\ [][NextRun]_vars

(***************************************************************************)
(* Claims about run().                                                     *)
(***************************************************************************)
\* C1: after a run() that reached the forwarded command: if the
\* environment existed and the new specification equalled the cached
\* baseline, no create/update command was issued and the baseline is
\* untouched; if the environment existed and the baseline was missing or
\* different, exactly an update was issued and the baseline is the new
\* file; if no environment existed, a create was issued and the baseline is
\* the new file.  In every case the baseline equals this run's file.
C1_CacheReconciliation ==
    conda.pc = "returned" =>
        LET pre  == conda.pre
            same == pre.cached.exists /\ pre.cached = conda.workflow
        IN  /\ (pre.env /\ same) =>
                /\ conda.log = <<"info", "forward">>
                /\ conda.cached = pre.cached
            /\ (pre.env /\ ~same) =>
                /\ conda.log = <<"info", "update", "forward">>
                /\ conda.cached = conda.workflow
            /\ ~pre.env =>
                /\ conda.log = <<"info", "create", "forward">>
                /\ conda.cached = conda.workflow
            /\ conda.cached.exists
            /\ conda.cached = conda.workflow

\* C1's case: a run that found the environment and a baseline equal to the
\* file it generated, and issued neither create nor update.
C1_Witness ==
    /\ conda.pc = "returned"
    /\ conda.pre.env
    /\ conda.pre.cached = conda.workflow
    /\ conda.log = <<"info", "forward">>

\* C2: a run whose base-prefix lookup, create or update command exited
\* non-zero raises, never executes the forwarded command, and leaves the
\* cached baseline as it was.
C2_ProvisioningFailureAborts ==
    (conda.pc \in {"returned", "raised"}
        /\ (conda.infoExit # 0 \/ conda.provExit # 0)) =>
        /\ conda.pc = "raised"
        /\ \A i \in 1..Len(conda.log) : conda.log[i] # "forward"
        /\ conda.cached = conda.pre.cached

\* C4: the specification written by run() is the template with the
\* resolved specifier appended to the `pip` list of the FIRST mapping that
\* has a `pip` key, and nothing else changed.
IsPipMapping(dep) == dep.type = "dict" /\ dep.haspip

C4_ExactlyOneAppended ==
    conda.pc = "returned" =>
        LET t == conda.template
        IN  \E i \in 1..Len(t) :
                /\ IsPipMapping(t[i])
                /\ \A j \in 1..(i - 1) : ~IsPipMapping(t[j])
                /\ conda.workflow.dependencies =
                       [t EXCEPT ![i].pip = Append(@, syw_spec(conda.version))]

(***************************************************************************)
(* Claims about the version specifier.                                     *)
(***************************************************************************)
\* The whole string is a dotted numeric version.
WhollyVersion(s) == Len(s) > 0 /\ VersionPrefixAt(s, Len(s))

\* The whole string is 5 to 40 lowercase hexadecimal digits.
WhollyCommit(s) ==
    /\ Len(s) >= HexMin /\ Len(s) <= HexMax
    /\ \A j \in 1..Len(s) : s[j] \in HexDigits

\* C3: absent or "any" gives the unpinned name; "latest" the main-branch
\* reference; a string that is wholly a dotted numeric version an exact
\* pin; a string that is wholly 5-40 hex digits a commit reference; every
\* other string an editable install of an absolute path.
C3_VersionPrecedence ==
    ver.pc = "resolved" =>
        LET v == ver.version
        IN  IF v \in {Absent, AnyStr} THEN ver.spec = Specifier("unpinned", <<>>)
            ELSE IF v = LatestStr THEN ver.spec = Specifier("main", <<>>)
            ELSE IF WhollyVersion(v) THEN ver.spec = Specifier("pin", v)
            ELSE IF WhollyCommit(v) THEN ver.spec = Specifier("commit", v)
            ELSE ver.spec.form = "editable" /\ IsAbsolute(ver.spec.arg)

(***************************************************************************)
(* workflow/utils/tex.py: compile_tex().                                   *)
(***************************************************************************)
\* The auxiliary files a configuration can list in `tex_files_in`, and the
\* reserved name of the stylesheet in the manuscript directory.
AuxNames == {"a.bib", "b.sty"}

StyleName == ".showyourwork.tex"

\* The exit statuses of the engine tried (a negative status is a signal).
ReturnCodes == {0, 1, 2, -9}

\* The number of calls of compile_tex followed.
MaxCalls == 2

\* if result.returncode != 0
EngineFailedPositiveOnly(returncode) == returncode > 0

EngineFailed(returncode) == returncode # 0

\* for file in config["tex_files_in"]: if not dst.exists(): copy(src, dst)
\* if stylesheet is not None: copy(stylesheet, paths.tex / ".showyourwork.tex")
CopyAuxiliaries(dir, files_in, stylesheet) ==
    [n \in DOMAIN dir |->
        IF n \in files_in /\ dir[n] = "missing" THEN "copied"
        ELSE IF n = StyleName /\ stylesheet # "None" THEN stylesheet
        ELSE dir[n]]

\* The manuscript directory before the first call: each auxiliary file
\* missing or already there, the stylesheet of an earlier build or none.
InitTex ==
    /\ tex \in {[pc |-> "ready", dir |-> d, calls |-> 0, invocations |-> 0,
                 returncode |-> 0, printed |-> <<>>, raised |-> "none",
                 returned |-> "nothing", before |-> d, files_in |-> {}] :
                d \in [AuxNames \cup {StyleName} -> {"missing", "present"}]}
    /\ ver = Idle /\ conda = Idle /\ ext = Idle
    /\ zen = Idle /\ ovl = Idle /\ fig = Idle /\ prep = Idle

\* One call of compile_tex(config, args, stylesheet); returncode is the
\* engine's exit status.  The function ends after the `if`: it has no
\* return statement, so a call that does not raise returns None.
CompileTex(files_in, stylesheet, returncode) ==
    /\ tex.pc # "idle"
    /\ tex.calls < MaxCalls
    /\ tex' = [pc          |-> IF EngineFailed(returncode) THEN "raised" ELSE "returned",
               dir         |-> CopyAuxiliaries(tex.dir, files_in, stylesheet),
               calls       |-> tex.calls + 1,
               invocations |-> tex.invocations + 1,
               returncode  |-> returncode,
               printed     |-> IF EngineFailed(returncode)
                               THEN <<"stdout", "stderr">> ELSE <<>>,
               raised      |-> IF EngineFailed(returncode)
                               THEN "TectonicError" ELSE "none",
               returned    |-> IF EngineFailed(returncode) THEN "nothing" ELSE "None",
               before      |-> tex.dir,
               files_in    |-> files_in]
    /\ UNCHANGED <<ver, conda, ext, zen, ovl, fig, prep>>

NextTex ==
    \E f \in SUBSET AuxNames, st \in {"None", "preprocess.tex"}, rc \in ReturnCodes :
        CompileTex(f, st, rc)

SpecTex == InitTex /\ [][NextTex]_vars

MaxOf(S) == CHOOSE x \in S : \A y \in S : x >= y

\* ".".join(parts[-i:])
TrailingExt(parts, i) == JoinWith(SubSeq(parts, Len(parts) - i + 1, Len(parts)), ".")

\* for i in range(1, len(parts)): ... if ext in script_extensions: break
\* The loop stops at the first i that matches; `matching` is not empty.
FirstMatchLongest(matching) == MaxOf(matching)

FirstMatch(matching) == MinOf(matching)

\* config["scripts"][ext]: the command template registered for ext.
ScriptsOf(script_extensions) == [e \in script_extensions |-> <<"run">> \o e]

\* The result of the loop for the script name `text`.
ResolveExtension(text, script_extensions) ==
    LET parts    == SplitOn(text, ".")
        matching == {i \in 1..(Len(parts) - 1) :
                        TrailingExt(parts, i) \in script_extensions}
    IN  IF matching = {}
        THEN [pc |-> "raised", raised |-> "FigureGenerationError",
              ext |-> <<>>, command |-> <<>>]
        ELSE LET e == TrailingExt(parts, FirstMatch(matching))
             IN  [pc |-> "resolved", raised |-> "none",
                  ext |-> e, command |-> ScriptsOf(script_extensions)[e]]

\* Script names: every string of at most MaxNameLen characters of
\* NameAlphabet; `script_extensions`: at most MaxExts of ExtUniverse.
MaxNameLen == 5

MaxExts == 2

NameAlphabet == {"a", "b", "."}

ExtUniverse ==
    { <<"b">>, <<"a", ".", "b">>, <<"b", ".", "b">>, <<"b", ".", "a">>, <<"a">> }

InitExt ==
    /\ ext \in {[pc |-> "script", text |-> t, script_extensions |-> x] :
                t \in BoundedSeq(NameAlphabet, MaxNameLen),
                x \in {y \in SUBSET ExtUniverse : Cardinality(y) <= MaxExts}}
    /\ ver = Idle /\ conda = Idle /\ tex = Idle
    /\ zen = Idle /\ ovl = Idle /\ fig = Idle /\ prep = Idle

InferCommand ==
    /\ ext.pc = "script"
    /\ ext' = [text |-> ext.text, script_extensions |-> ext.script_extensions]
              @@ ResolveExtension(ext.text, ext.script_extensions)
    /\ UNCHANGED <<ver, conda, tex, zen, ovl, fig, prep>>

NextExt == InferCommand

SpecExt == InitExt /\ [][NextExt]_vars

\* e is what follows some dot of the script name.
IsTrailingSuffix(e, text) ==
    \E k \in 1..Len(text) : text[k] = "." /\ e = SubSeq(text, k + 1, Len(text))

RegisteredSuffixes(text, script_extensions) ==
    {e \in script_extensions : IsTrailingSuffix(e, text)}

\* C6 as amended: the selected extension is registered, follows a dot of
\* the script name, and is the SHORTEST registered such suffix; its command
\* template is the one registered for it; the failure is raised exactly
\* when no registered extension follows a dot of the name.
C6_ShortestSuffixFirst ==
    LET reg == RegisteredSuffixes(ext.text, ext.script_extensions)
    IN  /\ ext.pc = "resolved" =>
            /\ ext.ext \in reg
            /\ \A e \in reg : Len(e) >= Len(ext.ext)
            /\ ext.command = ScriptsOf(ext.script_extensions)[ext.ext]
        /\ ext.pc = "raised" => reg = {} /\ ext.raised = "FigureGenerationError"
        /\ (ext.pc \in {"resolved", "raised"} /\ reg = {}) => ext.pc = "raised"

\* C6's case: a name with two registered suffixes, resolved to the shorter.
C6_Witness ==
    /\ ext.pc = "resolved"
    /\ \E e \in RegisteredSuffixes(ext.text, ext.script_extensions) :
           Len(e) > Len(ext.ext)

\* C6 as stated: the selected extension is a registered trailing suffix and
\* never a shorter one when a longer registered suffix exists.
C6_LongestSuffixFirst ==
    LET reg == RegisteredSuffixes(ext.text, ext.script_extensions)
    IN  /\ ext.pc = "resolved" =>
            /\ ext.ext \in reg
            /\ \A e \in reg : Len(e) <= Len(ext.ext)
        /\ (ext.pc \in {"resolved", "raised"} /\ reg = {}) => ext.pc = "raised"

(***************************************************************************)
(* workflow/scripts/preprocess.py: flatten_zenodo_contents() and           *)
(* parse_zenodo_datasets().                                                *)
(*                                                                         *)
(* A YAML value is a record: a string (s), None, a list, or a mapping (m,  *)
(* the key/value pairs in their order).  A Python dict is the sequence of  *)
(* its pairs in insertion order.                                           *)
(***************************************************************************)
Str(s) == [kind |-> "str", s |-> s, m |-> <<>>]

None == [kind |-> "none", s |-> <<>>, m |-> <<>>]

ListVal == [kind |-> "list", s |-> <<>>, m |-> <<>>]

MapVal(m) == [kind |-> "map", s |-> <<>>, m |-> m]

Entry(k, v) == [k |-> k, v |-> v]

DictHas(d, k) == \E i \in 1..Len(d) : d[i].k = k

DictGet(d, k) == d[CHOOSE i \in 1..Len(d) : d[i].k = k].v

\* d[k] = v: an existing key keeps its place.
DictSet(d, k, v) ==
    IF DictHas(d, k)
    THEN [i \in 1..Len(d) |-> IF d[i].k = k THEN Entry(k, v) ELSE d[i]]
    ELSE Append(d, Entry(k, v))

\* del d[k]
DictDel(d, k) == SelectSeq(d, LAMBDA e : e.k # k)

\* list(d.keys())
DictKeys(d) == [i \in 1..Len(d) |-> d[i].k]

\* dict(items): a later pair with the same key replaces the value.
RECURSIVE DictOf(_, _)
DictOf(items, d) ==
    IF Len(items) = 0 THEN d
    ELSE DictOf(Tail(items), DictSet(d, items[1].k, items[1].v))

\* Path(s).parts of a relative path
PathParts(s) == SelectSeq(SplitOn(s, "/"), LAMBDA p : p # <<>> /\ p # <<".">>)

\* Path(*parts).as_posix()
AsPosix(parts) == IF Len(parts) = 0 THEN <<".">> ELSE JoinWith(parts, "/")

\* (Path(a) / b).as_posix()
PathJoin(a, b) == AsPosix(PathParts(a) \o PathParts(b))

\* s.endswith(suffix)
EndsWith(s, suffix) ==
    /\ Len(s) >= Len(suffix)
    /\ SubSeq(s, Len(s) - Len(suffix) + 1, Len(s)) = suffix

\* zenodo.zip_exts
zip_exts ==
    << <<"t", "a", "r">>, <<"t", "a", "r", ".", "g", "z">>, <<"z", "i", "p">> >>

\* any([zip_file.endswith(f".{ext}") for ext in zenodo.zip_exts])
IsArchive(zip_file) ==
    \E i \in 1..Len(zip_exts) : EndsWith(zip_file, <<".">> \o zip_exts[i])

\* The default target of a key without one: default_path / key, with the
\* extension of an archive in the first segment removed.
DefaultTarget(new_key, default_path) ==
    LET parts    == PathParts(new_key)
        zip_file == parts[1]
        matching == {i \in 1..Len(zip_exts) : EndsWith(zip_file, <<".">> \o zip_exts[i])}
    IN  IF matching = {}
        THEN PathJoin(default_path, new_key)
        ELSE LET e    == zip_exts[MinOf(matching)]
                 stem == SubSeq(zip_file, 1, Len(zip_file) - Len(e) - 1)
             IN  AsPosix(PathParts(default_path) \o PathParts(stem) \o Tail(parts))

\* The body of flatten_zenodo_contents for a mapping: the (key, target)
\* items in order, then dict(items).
RECURSIVE FlattenItems(_, _, _)
FlattenItems(m, parent_key, default_path) ==
    IF Len(m) = 0 THEN <<>>
    ELSE LET k       == m[1].k
             v       == m[1].v
             new_key == IF parent_key # <<>> THEN PathJoin(parent_key, k) ELSE k
             here    == IF v.kind = "map"
                        THEN DictOf(FlattenItems(v.m, new_key, default_path), <<>>)
                        ELSE IF v.kind = "none"
                        THEN <<Entry(new_key, Str(DefaultTarget(new_key, default_path)))>>
                        ELSE <<Entry(new_key, v)>>
         IN  here \o FlattenItems(Tail(m), parent_key, default_path)

\* flatten_zenodo_contents(d, default_path=...) as called by
\* parse_zenodo_datasets: a string is {d: None}, a list raises ConfigError.
flatten_zenodo_contents(d, default_path) ==
    IF d.kind = "list" THEN [raised |-> "ConfigError", items |-> <<>>]
    ELSE [raised |-> "none",
          items  |-> DictOf(FlattenItems(IF d.kind = "str"
                                         THEN <<Entry(d.s, None)>> ELSE d.m,
                                         <<>>, default_path), <<>>)]

\* int(deposit_id) succeeds on a string of digits; str() of the result has
\* no leading zeros.
IsInt(s) == Len(s) > 0 /\ \A i \in 1..Len(s) : s[i] \in Digits

RECURSIVE StrOfInt(_)
StrOfInt(s) == IF Len(s) > 1 /\ s[1] = "0" THEN StrOfInt(Tail(s)) ELSE s

\* paths.user().zenodo / zenodo_sandbox, relative to the repository
tmp_path(host) == IF host = "zenodo" THEN <<"z">> ELSE <<"z", "s">>

\* (tmp_path / str(deposit_id) / zip_file).as_posix()
StagingPath(host, deposit_id, zip_file) ==
    PathJoin(PathJoin(tmp_path(host), StrOfInt(deposit_id)), zip_file)

\* entry["zip_files"][zip_file].update({new_source: target}), or a new
\* entry {new_source: target} for an archive seen for the first time.
AddZipFileReplacing(zip_files, zip_file, new_source, target) ==
    DictSet(zip_files, zip_file, <<Entry(new_source, target)>>)

AddZipFile(zip_files, zip_file, new_source, target) ==
    IF DictHas(zip_files, zip_file)
    THEN DictSet(zip_files, zip_file,
                 DictSet(DictGet(zip_files, zip_file), new_source, target))
    ELSE DictSet(zip_files, zip_file, <<Entry(new_source, target)>>)

\* for source in list(contents.keys()): ...
RECURSIVE ExtractArchives(_, _, _, _, _)
ExtractArchives(sources, contents, zip_files, host, deposit_id) ==
    IF Len(sources) = 0
    THEN [raised |-> "none", contents |-> contents, zip_files |-> zip_files]
    ELSE LET source   == sources[1]
             target   == DictGet(contents, source)
             zip_file == PathParts(source)[1]
         IN  IF target.kind = "list"
             THEN [raised |-> "ZenodoContentsError", contents |-> contents,
                   zip_files |-> zip_files]
             ELSE IF IsArchive(zip_file)
             THEN ExtractArchives(
                      Tail(sources),
                      DictSet(DictDel(contents, source), zip_file,
                              Str(StagingPath(host, deposit_id, zip_file))),
                      AddZipFile(zip_files, zip_file,
                                 AsPosix(Tail(PathParts(source))), target),
                      host, deposit_id)
             ELSE ExtractArchives(Tail(sources), contents, zip_files, host, deposit_id)

\* str(paths.user().data.relative_to(paths.user().repo))
DataDir == <<"d">>

\* The body of the loop over the deposits for one deposit; id_type is the
\* answer of zenodo.get_id_type.
ParseDeposit(host, deposit_id, id_type, raw) ==
    LET flat == flatten_zenodo_contents(raw, DataDir)
        done == ExtractArchives(DictKeys(flat.items), flat.items, <<>>, host, deposit_id)
        fail(exc) == [pc |-> "raised", raised |-> exc, flat |-> <<>>,
                      contents |-> <<>>, zip_files |-> <<>>]
    IN  IF ~IsInt(deposit_id) THEN fail("ZenodoRecordNotFound")
        ELSE IF id_type # "version" THEN fail("InvalidZenodoIdType")
        ELSE IF flat.raised # "none" THEN fail(flat.raised)
        ELSE IF done.raised # "none"
        THEN [pc |-> "raised", raised |-> done.raised, flat |-> flat.items,
              contents |-> <<>>, zip_files |-> <<>>]
        ELSE [pc |-> "parsed", raised |-> "none", flat |-> flat.items,
              contents |-> done.contents, zip_files |-> done.zip_files]

\* The keys of the `contents` declarations tried: an archive, a plain file
\* and a path inside the archive.
KeyArchive == <<"a", ".", "z", "i", "p">>

KeyFile == <<"x">>

KeyInside == <<"a", ".", "z", "i", "p", "/", "x">>

ContentKeys == {KeyArchive, KeyFile, KeyInside}

\* The leaves tried: no target, an explicit target, a list.
ContentLeaves == {None, Str(<<"t">>), ListVal}

\* The declarations tried hold at most MaxKeys keys over all their levels.
MaxKeys == 3

\* The mappings (in every order of their keys) with at most n keys over
\* all levels, whose values are leaves or such mappings.
RECURSIVE MapsUpTo(_)
MapsUpTo(n) ==
    IF n = 0 THEN {<<>>}
    ELSE {<<>>} \cup
         UNION { { <<Entry(k, v)>> \o rest :
                     v \in ContentLeaves \cup {MapVal(m) : m \in MapsUpTo(j)},
                     rest \in {r \in MapsUpTo(n - 1 - j) : ~DictHas(r, k)} } :
                 k \in ContentKeys, j \in 0..(n - 1) }

RawContents ==
    {ListVal, Str(KeyFile), Str(KeyInside)} \cup {MapVal(m) : m \in MapsUpTo(MaxKeys)}

\* The deposit identifiers and the classifications of get_id_type tried.
DepositIds == {<<"7">>, <<"0", "7">>, <<"x">>}

IdTypes == {"version", "concept", "unknown"}

Hosts == {"zenodo", "zenodo_sandbox"}

\* A configuration with one deposit, under one of the two hosts.  Every
\* declaration is tried with an identifier that passes the two gates; the
\* other identifiers and classifications with an empty declaration.
InitZenodo ==
    /\ zen \in {[pc |-> "config", host |-> h, deposit_id |-> d, id_type |-> t,
                 raw |-> c] :
                h \in Hosts, d \in DepositIds, t \in IdTypes, c \in RawContents}
    /\ (zen.id_type # "version" \/ ~IsInt(zen.deposit_id)) => zen.raw = MapVal(<<>>)
    /\ ver = Idle /\ conda = Idle /\ tex = Idle
    /\ ext = Idle /\ ovl = Idle /\ fig = Idle /\ prep = Idle

\* parse_zenodo_datasets() on that configuration.
ParseZenodoDatasets ==
    /\ zen.pc = "config"
    /\ zen' = [host |-> zen.host, deposit_id |-> zen.deposit_id,
               id_type |-> zen.id_type, raw |-> zen.raw]
              @@ ParseDeposit(zen.host, zen.deposit_id, zen.id_type, zen.raw)
    /\ UNCHANGED <<ver, conda, tex, ext, ovl, fig, prep>>

NextZenodo == ParseZenodoDatasets

SpecZenodo == InitZenodo /\ [][NextZenodo]_vars

\* A list is the declaration itself or the value of a key at some depth.
RECURSIVE HasList(_)
HasList(v) ==
    \/ v.kind = "list"
    \/ v.kind = "map" /\ \E i \in 1..Len(v.m) : HasList(v.m[i].v)

\* C7: a deposit (with a valid version identifier) whose `contents` holds a
\* list anywhere raises ZenodoContentsError and is never normalized.
C7_ListRaisesContentsError ==
    (zen.pc \in {"parsed", "raised"}
        /\ IsInt(zen.deposit_id) /\ zen.id_type = "version"
        /\ HasList(zen.raw)) =>
        zen.pc = "raised" /\ zen.raised = "ZenodoContentsError"

\* <scratch directory of the host>/<deposit_id>/<archive_name>
StagingOf(archive) ==
    Str(tmp_path(zen.host) \o <<"/">> \o StrOfInt(zen.deposit_id) \o <<"/">> \o archive)

\* The flattened pair (source, target) was moved to zip_files: the archive
\* maps the path inside it to target, and `contents` maps the archive name
\* to its staging path.
MovedToZipFiles(source, target) ==
    LET parts   == PathParts(source)
        archive == parts[1]
    IN  /\ DictHas(zen.zip_files, archive)
        /\ DictHas(DictGet(zen.zip_files, archive), AsPosix(Tail(parts)))
        /\ DictGet(DictGet(zen.zip_files, archive), AsPosix(Tail(parts))) = target
        /\ DictHas(zen.contents, archive)
        /\ DictGet(zen.contents, archive) = StagingOf(archive)

LeftInContents(source, target) ==
    DictHas(zen.contents, source) /\ DictGet(zen.contents, source) = target

\* C8 as amended: after parsing, every flattened pair whose source is a
\* path INSIDE an archive (an archive segment followed by at least one
\* more segment) is no longer a key of `contents` and was moved to
\* zip_files (entries of one archive merged, none lost); every pair whose
\* first segment is no archive is unchanged in `contents`; a pair whose
\* source is the bare archive name keeps its key in `contents`, now mapped
\* to the staging path, and is recorded in zip_files under the path ".".
C8_ArchiveSplitting ==
    zen.pc = "parsed" =>
        \A i \in 1..Len(zen.flat) :
            LET source == zen.flat[i].k
                target == zen.flat[i].v
                parts  == PathParts(source)
            IN  IF ~IsArchive(parts[1]) THEN LeftInContents(source, target)
                ELSE IF Len(parts) >= 2
                THEN ~DictHas(zen.contents, source) /\ MovedToZipFiles(source, target)
                ELSE /\ LeftInContents(source, StagingOf(source))
                     /\ DictHas(zen.zip_files, source)
                     /\ DictHas(DictGet(zen.zip_files, source), <<".">>)

\* C8's case: two flattened pairs inside the same archive, merged under
\* it.
C8_Witness ==
    /\ zen.pc = "parsed"
    /\ \E i, j \in 1..Len(zen.flat) :
           /\ i # j
           /\ Len(PathParts(zen.flat[i].k)) >= 2
           /\ Len(PathParts(zen.flat[j].k)) >= 2
           /\ PathParts(zen.flat[i].k)[1] = KeyArchive
           /\ PathParts(zen.flat[j].k)[1] = KeyArchive
    /\ Len(DictGet(zen.zip_files, KeyArchive)) >= 2

\* C8 as stated: after parsing, every flattened pair whose first segment is
\* an archive is no longer a key of `contents` and was moved to zip_files;
\* every other pair is unchanged in `contents`.
C8_EveryArchivePairSplit ==
    zen.pc = "parsed" =>
        \A i \in 1..Len(zen.flat) :
            LET source == zen.flat[i].k
                target == zen.flat[i].v
            IN  IF IsArchive(PathParts(source)[1])
                THEN ~DictHas(zen.contents, source) /\ MovedToZipFiles(source, target)
                ELSE LeftInContents(source, target)

(***************************************************************************)
(* workflow/scripts/preprocess.py: parse_overleaf().                       *)
(***************************************************************************)
\* A key that the mapping does not have, a boolean, and a list of strings.
Missing == [kind |-> "absent", s |-> <<>>, m |-> <<>>]

Bool(b) == [kind |-> "bool", s |-> <<IF b THEN "True" ELSE "False">>, m |-> <<>>]

ListOf(items) == [kind |-> "list", s |-> <<>>, m |-> items]

\* dict.get(key, default)
GetOr(v, default) == IF v.kind = "absent" THEN default ELSE v

\* The working directory of the preprocessor (the repository root) and
\* paths.user().tex, as the parts of absolute paths.
CwdStr == RepoStr

TexParts == << <<"r">>, <<"t">> >>

\* Path(file).resolve(), as parts
ResolveFile(file) ==
    ResolveParts(SplitOn(IF IsAbsolute(file) THEN file ELSE CwdStr \o <<"/">> \o file,
                         "/"), <<>>)

\* p.is_relative_to(base)
IsRelativeTo(parts, base) ==
    Len(parts) >= Len(base) /\ SubSeq(parts, 1, Len(base)) = base

\* str(p.relative_to(base))
RelativeTo(parts, base) == AsPosix(SubSeq(parts, Len(base) + 1, Len(parts)))

SeqRange(q) == {q[i] : i \in 1..Len(q)}

\* len(push_files & pull_files), the files relative to the tex directory
OverlapVerbatim(push, pull) == SeqRange(push) \cap SeqRange(pull) # {}

Overlap(push, pull) ==
    {RelativeTo(ResolveFile(f), TexParts) : f \in SeqRange(push)}
        \cap {RelativeTo(ResolveFile(f), TexParts) : f \in SeqRange(pull)} # {}

\* `push`/`pull` after .get(key, []) and the replacement of None by [].
ListOrEmpty(v) ==
    LET got == GetOr(v, ListOf(<<>>))
    IN  IF got.kind = "none" THEN ListOf(<<>>) ELSE got

\* parse_overleaf() on config["overleaf"] = o.
parse_overleaf(o) ==
    LET id     == GetOr(o.id, None)
        auto   == GetOr(o.auto_commit, Bool(FALSE))
        push   == ListOrEmpty(o.push)
        pull   == ListOrEmpty(o.pull)
        fail   == [pc |-> "raised", raised |-> "ConfigError"]
        all    == push.m \o pull.m
    IN  IF push.kind # "list" THEN fail
        ELSE IF pull.kind # "list" THEN fail
        ELSE IF \E i \in 1..Len(all) : ~IsRelativeTo(ResolveFile(all[i]), TexParts)
        THEN fail
        ELSE IF Overlap(push.m, pull.m) THEN fail
        ELSE [pc |-> "returned", raised |-> "none",
              overleaf |-> [id |-> id, auto_commit |-> auto,
                            push |-> push, pull |-> pull]]

\* The files tried in `push` and `pull`: two files of the tex directory,
\* a second spelling and an absolute spelling of the first, and a file of
\* the repository root; each list holds at most MaxFiles of them.
MaxFiles == 2

OverleafFiles ==
    { <<"t", "/", "a">>, <<"t", "/", "b">>, <<"t", "/", ".", "/", "a">>,
      <<"/", "r", "/", "t", "/", "a">>, <<"a">> }

PushPullValues ==
    {Missing, None, Str(<<"t", "/", "a">>)}
        \cup {ListOf(q) : q \in BoundedSeq(OverleafFiles, MaxFiles)}

InitOverleaf ==
    /\ ovl \in {[pc |-> "config",
                 given |-> [id |-> i, auto_commit |-> a, push |-> ps, pull |-> pl]] :
                i \in {Missing, Str(<<"p">>)}, a \in {Missing, Bool(TRUE)},
                ps \in PushPullValues, pl \in PushPullValues}
    /\ ver = Idle /\ conda = Idle /\ tex = Idle
    /\ ext = Idle /\ zen = Idle /\ fig = Idle /\ prep = Idle

ParseOverleaf ==
    /\ ovl.pc = "config"
    /\ ovl' = [given |-> ovl.given] @@ parse_overleaf(ovl.given)
    /\ UNCHANGED <<ver, conda, tex, ext, zen, fig, prep>>

NextOverleaf == ParseOverleaf

SpecOverleaf == InitOverleaf /\ [][NextOverleaf]_vars

\* The path resolves to a location inside the manuscript-source directory.
InsideTex(file) == IsRelativeTo(ResolveFile(file), TexParts)

ResolvedSet(q) == {ResolveFile(q[i]) : i \in 1..Len(q)}

\* C9: when parse_overleaf returns, `id` is present (None by default),
\* `auto-commit` is present (False by default), `push` and `pull` are lists
\* (the given list, or empty when absent or null), every path of both
\* resolves inside the manuscript-source directory and the resolved `push`
\* and `pull` paths are disjoint; a non-list `push`/`pull`, a path outside
\* the directory or a file in both lists raises ConfigError.
C9_OverleafValidated ==
    LET g == ovl.given
    IN  /\ ovl.pc = "returned" =>
            LET o == ovl.overleaf
            IN  /\ o.id = (IF g.id.kind = "absent" THEN None ELSE g.id)
                /\ o.auto_commit = (IF g.auto_commit.kind = "absent"
                                    THEN Bool(FALSE) ELSE g.auto_commit)
                /\ o.push.kind = "list" /\ o.pull.kind = "list"
                /\ g.push.kind \in {"absent", "none"} => o.push.m = <<>>
                /\ g.pull.kind \in {"absent", "none"} => o.pull.m = <<>>
                /\ g.push.kind = "list" => o.push = g.push
                /\ g.pull.kind = "list" => o.pull = g.pull
                /\ \A f \in SeqRange(o.push.m) \cup SeqRange(o.pull.m) : InsideTex(f)
                /\ ResolvedSet(o.push.m) \cap ResolvedSet(o.pull.m) = {}
        /\ (ovl.pc \in {"returned", "raised"}
              /\ \/ g.push.kind \notin {"absent", "none", "list"}
                 \/ g.pull.kind \notin {"absent", "none", "list"}
                 \/ \E f \in SeqRange(g.push.m) \cup SeqRange(g.pull.m) : ~InsideTex(f)
                 \/ SeqRange(g.push.m) \cap SeqRange(g.pull.m) # {})
            => ovl.pc = "raised" /\ ovl.raised = "ConfigError"

\* C9's case: a configuration without `id` and `auto-commit`, with a file
\* to push and another to pull, both inside the directory, accepted.
C9_Witness ==
    /\ ovl.pc = "returned"
    /\ ovl.given.id = Missing /\ ovl.given.auto_commit = Missing
    /\ Len(ovl.overleaf.push.m) >= 1 /\ Len(ovl.overleaf.pull.m) >= 1

(***************************************************************************)
(* workflow/scripts/preprocess.py: check_figure_format().                  *)
(*                                                                         *)
(* A figure block is the sequence of its direct children; a child has a    *)
(* tag and the tags of its own children.  Indices are those of the code,   *)
(* counted from 0.                                                         *)
(***************************************************************************)
Element(tag, inner) == [tag |-> tag, inner |-> inner]

\* figure.findall(tag): the indices of the direct children with that tag
FindAll(elements, tag) == {i \in 0..(Len(elements) - 1) : elements[i + 1].tag = tag}

\* Index of the last caption: the loop over elements[::-1] stops at the
\* first CAPTION from the end.
FirstCaptionIndex(elements) == MinOf(FindAll(elements, "CAPTION"))

LastCaptionIndex(elements) == MaxOf(FindAll(elements, "CAPTION"))

\* Index of the first label
FirstLabelIndex(elements) == MinOf(FindAll(elements, "LABEL"))

\* The loop over the elements stops at the first MARGINICON; without one
\* the index is 0.
MarginiconIndex(elements) ==
    IF FindAll(elements, "MARGINICON") = {} THEN 0
    ELSE MinOf(FindAll(elements, "MARGINICON"))

\* check_figure_format(figure): the first failure raised, if any.
check_figure_format(elements) ==
    LET captions == FindAll(elements, "CAPTION")
        labels   == FindAll(elements, "LABEL")
        scripts  == FindAll(elements, "SCRIPT")
        fail(why) == [pc |-> "raised", raised |-> "FigureFormatError", why |-> why]
    IN  IF \E c \in captions : \E k \in 1..Len(elements[c + 1].inner) :
               elements[c + 1].inner[k] = "LABEL"
        THEN fail("label nested in caption")
        ELSE IF captions # {} /\ labels # {}
                 /\ FirstLabelIndex(elements) < LastCaptionIndex(elements)
        THEN fail("label before caption")
        ELSE IF captions # {} /\ labels # {}
                 /\ MarginiconIndex(elements) > FirstLabelIndex(elements)
        THEN fail("marginicon after label")
        ELSE IF Cardinality(labels) >= 2 THEN fail("multiple labels")
        ELSE IF Cardinality(scripts) >= 2 THEN fail("multiple scripts")
        ELSE IF scripts # {} /\ labels = {} THEN fail("script without label")
        ELSE [pc |-> "accepted", raised |-> "none", why |-> "none"]

\* The children tried: a caption, a caption that holds a label, a label, a
\* script, a margin icon and a graphic; a block has at most MaxChildren.
MaxChildren == 4

FigureElements ==
    { Element("CAPTION", <<>>), Element("CAPTION", <<"LABEL">>),
      Element("LABEL", <<>>), Element("SCRIPT", <<>>),
      Element("MARGINICON", <<>>), Element("GRAPHICS", <<>>) }

InitFigure ==
    /\ fig \in {[pc |-> "figure", elements |-> e] :
                e \in BoundedSeq(FigureElements, MaxChildren)}
    /\ ver = Idle /\ conda = Idle /\ tex = Idle
    /\ ext = Idle /\ zen = Idle /\ ovl = Idle /\ prep = Idle

CheckFigureFormat ==
    /\ fig.pc = "figure"
    /\ fig' = [elements |-> fig.elements] @@ check_figure_format(fig.elements)
    /\ UNCHANGED <<ver, conda, tex, ext, zen, ovl, prep>>

NextFigure == CheckFigureFormat

SpecFigure == InitFigure /\ [][NextFigure]_vars

\* The positions (from 1) of the children with a tag.
Positions(tag) == {i \in 1..Len(fig.elements) : fig.elements[i].tag = tag}

Checked == fig.pc \in {"accepted", "raised"}

Raised == fig.pc = "raised" /\ fig.raised = "FigureFormatError"

\* Some caption comes after the first label.
LabelPrecedesCaption ==
    \E l \in Positions("LABEL"), c \in Positions("CAPTION") :
        /\ \A k \in Positions("LABEL") : l <= k
        /\ \A k \in Positions("CAPTION") : k <= c
        /\ l < c

\* A rule other than the order of label and caption is broken: a label
\* inside a caption, a margin icon after the label, several labels,
\* several scripts.
OtherRuleBroken ==
    \/ \E c \in Positions("CAPTION") : \E k \in 1..Len(fig.elements[c].inner) :
           fig.elements[c].inner[k] = "LABEL"
    \/ \E m \in Positions("MARGINICON"), l \in Positions("LABEL") : l < m
    \/ Cardinality(Positions("LABEL")) >= 2
    \/ Cardinality(Positions("SCRIPT")) >= 2

\* The clauses of C10 that do not depend on the reading of "exactly when":
\* the children [CAPTION, LABEL] are accepted; a block with two or more
\* labels raises; a block with a script and no label raises.
C10_OtherClauses ==
    /\ fig.elements = <<Element("CAPTION", <<>>), Element("LABEL", <<>>)>>
           => fig.pc = "accepted"
    /\ Cardinality(Positions("LABEL")) >= 2 => Raised
    /\ (Positions("SCRIPT") # {} /\ Positions("LABEL") = {}) => Raised

C13_MarginiconsBeforeLabel ==
    Checked =>
        /\ (\E l \in Positions("LABEL"), m \in Positions("MARGINICON") : l < m)
               => Raised
        /\ fig.pc = "accepted" =>
               \A l \in Positions("LABEL"), m \in Positions("MARGINICON") : m < l
        /\ Positions("MARGINICON") = {} => fig.why # "marginicon after label"

(***************************************************************************)
(* workflow/scripts/preprocess.py: get_xml_tree(), get_json_tree() and the *)
(* statements of the module, which run the stages one after the other on   *)
(* the configuration.                                                      *)
(*                                                                         *)
(* A label is a sequence that holds its text; paths and script names are   *)
(* sequences of characters.                                                *)
(* The directories are named by one letter, relative to the repository:    *)
(* "t" the manuscript sources, "t/f" the figures, "s" the figure scripts,  *)
(* "c" the static figures.                                                 *)
(***************************************************************************)
\* A child of a figure block, or of the root, with its text.
TextElement(tag, text) == [tag |-> tag, inner |-> <<>>, text |-> text]

\* [e.text for e in node.findall(tag)]
RECURSIVE TextsOf(_, _)
TextsOf(elements, tag) ==
    IF Len(elements) = 0 THEN <<>>
    ELSE (IF elements[1].tag = tag THEN <<elements[1].text>> ELSE <<>>)
             \o TextsOf(Tail(elements), tag)

\* paths.user().repo and paths.user().figures as the parts of absolute
\* paths; the scripts and static directories relative to the repository.
RepoParts == << <<"r">> >>

FiguresParts == << <<"r">>, <<"t">>, <<"f">> >>

ScriptsDir == <<"s">>

StaticDir == <<"c">>

\* base / other for pathlib paths: an absolute `other` replaces the base.
JoinParts(base, other) ==
    IF IsAbsolute(other) THEN SplitOn(other, "/") ELSE base \o SplitOn(other, "/")

\* (paths.user().tex / graphicspath / graphic.text).resolve()
ResolveGraphic(graphicspath, text) ==
    ResolveParts(
        IF IsAbsolute(text) THEN SplitOn(text, "/")
        ELSE JoinParts(TexParts, graphicspath) \o SplitOn(text, "/"), <<>>)

\* The list comprehension of the resolved graphics, relative to the
\* repository; relative_to raises ValueError for a path outside of it.
GraphicsOf(graphicspath, texts) ==
    IF \E i \in 1..Len(texts) :
           ~IsRelativeTo(ResolveGraphic(graphicspath, texts[i]), RepoParts)
    THEN [raised |-> "ValueError", graphics |-> <<>>]
    ELSE [raised   |-> "none",
          graphics |-> [i \in 1..Len(texts) |->
                           RelativeTo(ResolveGraphic(graphicspath, texts[i]),
                                      RepoParts)]]

\* (repo / graphic).parents[0] == figures and (static / name).exists()
IsStatic(graphic, static) ==
    LET parts == RepoParts \o PathParts(graphic)
    IN  /\ Len(parts) >= 2
        /\ Front(parts) = FiguresParts
        /\ Last(parts) \in static

\* xml_tree.findall("GRAPHICSPATH"): a declaration is the list of its
\* brace groups, as re.findall returns them.  Without a declaration the
\* path is "."; the first group of the last declaration otherwise; a
\* declaration without a group raises.
GraphicsPath(declarations) ==
    IF Len(declarations) = 0 THEN [raised |-> "none", path |-> <<".">>]
    ELSE IF Len(Last(declarations)) = 0
    THEN [raised |-> "GraphicsPathError", path |-> <<>>]
    ELSE [raised |-> "none", path |-> Last(declarations)[1]]

\* The command of a figure: none, a `cp` of the static sources to the
\* figures directory, or the template registered for the script.
Command(kind, template, srcs) == [kind |-> kind, template |-> template, srcs |-> srcs]

NoCommand == Command("none", <<>>, <<>>)

\* cp {srcs} {dest}: the sources are static / Path(graphic).name
CopyCommand(graphics) ==
    Command("cp", <<>>,
            [i \in 1..Len(graphics) |-> PathJoin(StaticDir, Last(PathParts(graphics[i])))])

\* config["script_extensions"]
script_extensions == { <<"p", "y">> }

\* f"https://{zenodo.zenodo_url[host]}/record/{deposit_id}"
RecordUrl(host, deposit_id) == <<host, deposit_id>>

\* The targets of a parsed deposit: contents.values() and the values of
\* every mapping of zip_files.
TargetsOf(deposit) ==
    {deposit.contents[i].v.s : i \in 1..Len(deposit.contents)}
        \cup UNION { {deposit.zip_files[i].v[j].v.s : j \in 1..Len(deposit.zip_files[i].v)} :
                     i \in 1..Len(deposit.zip_files) }

\* list(set(datasets)): the records of the deposits that hold one of the
\* dependencies, each once.
RECURSIVE DatasetsOf(_, _)
DatasetsOf(deposits, dependencies) ==
    IF Len(deposits) = 0 THEN <<>>
    ELSE (IF SeqRange(dependencies) \cap TargetsOf(deposits[1]) # {}
          THEN <<RecordUrl(deposits[1].host, deposits[1].deposit_id)>> ELSE <<>>)
             \o DatasetsOf(Tail(deposits), dependencies)

\* One entry of the tree.
FigureEntry(script, graphics, datasets, dependencies, command) ==
    [script |-> script, graphics |-> graphics, datasets |-> datasets,
     dependencies |-> dependencies, command |-> command]

\* config["dependencies"].get(key, [])
DeclaredIgnored(dependencies, key) == <<>>

Declared(dependencies, key) ==
    IF DictHas(dependencies, key) THEN DictGet(dependencies, key) ELSE <<>>

\* The loop over xml_tree.findall("FIGURE"): `figures` and
\* `unlabeled_graphics` after the blocks, or the first failure.
RECURSIVE ParseFigures(_, _, _, _, _, _, _)
ParseFigures(blocks, figures, unlabeled, graphicspath, static, dependencies, deposits) ==
    IF Len(blocks) = 0
    THEN [raised |-> "none", figures |-> figures, unlabeled |-> unlabeled]
    ELSE LET figure   == blocks[1]
             checked  == check_figure_format(figure)
             resolved == GraphicsOf(graphicspath, TextsOf(figure, "GRAPHICS"))
             graphics == resolved.graphics
             isStatic == \A i \in 1..Len(graphics) : IsStatic(graphics[i], static)
             labels   == TextsOf(figure, "LABEL")
             scripts  == TextsOf(figure, "SCRIPT")
             given    == Len(scripts) > 0 /\ scripts[1] # <<>>
             script   == IF given THEN Str(PathJoin(ScriptsDir, scripts[1])) ELSE None
             found    == IF given THEN ResolveExtension(scripts[1], script_extensions)
                         ELSE [pc |-> "resolved", raised |-> "none",
                               ext |-> <<>>, command |-> <<>>]
             command  == IF given THEN Command("run", found.command, <<>>)
                         ELSE IF isStatic THEN CopyCommand(graphics)
                         ELSE NoCommand
             deps     == IF given THEN Declared(dependencies, script.s) ELSE <<>>
             fail(exc) == [raised |-> exc, figures |-> figures, unlabeled |-> unlabeled]
         IN  IF checked.pc = "raised" THEN fail(checked.raised)
             ELSE IF resolved.raised # "none" THEN fail(resolved.raised)
             ELSE IF Len(labels) = 0
             THEN ParseFigures(Tail(blocks), figures, unlabeled \o graphics,
                               graphicspath, static, dependencies, deposits)
             ELSE IF found.pc = "raised" THEN fail(found.raised)
             ELSE ParseFigures(
                      Tail(blocks),
                      DictSet(figures, labels[1],
                              FigureEntry(script, graphics,
                                          DatasetsOf(deposits, deps), deps, command)),
                      unlabeled, graphicspath, static, dependencies, deposits)

\* The two reserved labels of the tree, and the labels of the manuscript.
FreeFloatingDynamic == <<"free-floating-dynamic">>

FreeFloatingStatic == <<"free-floating-static">>

LabelX == <<"x">>

LabelY == <<"y">>

\* The free-floating graphics: those of the root and of the unlabeled
\* blocks that are not in tex_files_out, split into static and dynamic, and
\* the two entries added to the tree under the reserved labels.
FreeFloating(figures, free, static, tex_files_out) ==
    LET kept     == SelectSeq(free, LAMBDA g : g \notin SeqRange(tex_files_out))
        fstatic  == SelectSeq(kept, LAMBDA g : IsStatic(g, static))
        fdynamic == SelectSeq(kept, LAMBDA g : g \notin SeqRange(fstatic))
    IN  DictSet(DictSet(figures, FreeFloatingDynamic,
                        FigureEntry(None, fdynamic, <<>>, <<>>, NoCommand)),
                FreeFloatingStatic,
                FigureEntry(None, fstatic, <<>>, <<>>, CopyCommand(fstatic)))

\* get_json_tree() on the root of the parsed artifact: config["tree"]
\* ["figures"], or the failure raised.
get_json_tree(xml, static, dependencies, deposits, tex_files_out) ==
    LET gp     == GraphicsPath(xml.graphicspath)
        parsed == ParseFigures(xml.figures, <<>>, <<>>, gp.path, static,
                               dependencies, deposits)
        root   == GraphicsOf(gp.path, xml.graphics)
    IN  IF gp.raised # "none" THEN [raised |-> gp.raised, figures |-> <<>>]
        ELSE IF parsed.raised # "none" THEN [raised |-> parsed.raised, figures |-> <<>>]
        ELSE IF root.raised # "none" THEN [raised |-> root.raised, figures |-> <<>>]
        ELSE [raised  |-> "none",
              figures |-> FreeFloating(parsed.figures,
                                       root.graphics \o parsed.unlabeled,
                                       static, tex_files_out)]

\* The loop of parse_zenodo_datasets over the deposits of the hosts: the
\* parsed deposits, or the failure of the first deposit that has one.
RECURSIVE ParseDeposits(_, _)
ParseDeposits(deposits, done) ==
    IF Len(deposits) = 0 THEN [raised |-> "none", deposits |-> done]
    ELSE LET d == deposits[1]
             r == ParseDeposit(d.host, d.deposit_id, d.id_type, d.raw)
         IN  IF r.pc = "raised" THEN [raised |-> r.raised, deposits |-> done]
             ELSE ParseDeposits(Tail(deposits),
                                Append(done, [host |-> d.host,
                                              deposit_id |-> d.deposit_id,
                                              contents |-> r.contents,
                                              zip_files |-> r.zip_files]))

\* compile_tex of showyourwork.tex, called by get_xml_tree with "-r 0" and
\* the preprocessing stylesheet: it raises on a non-zero exit status.
DiagnosticCompileFailed(returncode) == returncode # 0

\* config["ms_tex"]
ms_tex == <<"t", "/", "m">>

\* [Path(graphic).as_posix() for graphic in graphics], for every figure of
\* the tree in turn.
RECURSIVE PosixGraphics(_)
PosixGraphics(figures) ==
    IF Len(figures) = 0 THEN <<>>
    ELSE [i \in 1..Len(figures[1].v.graphics) |->
             AsPosix(PathParts(figures[1].v.graphics[i]))]
         \o PosixGraphics(Tail(figures))

\* config["dependencies"][ms_tex] = config["dependencies"].get(ms_tex, [])
\* followed by the extend() of every figure.
MakeDependencies(dependencies, figures) ==
    DictSet(dependencies, ms_tex, Declared(dependencies, ms_tex) \o PosixGraphics(figures))

\* zip(datasets, ["One", "Two", "Three"])
DatasetNumbers == <<"One", "Two", "Three">>

\* config["labels"][f"{label}_dataset{number}"] = dataset; the key is kept
\* as the pieces of the formatted string.
RECURSIVE AddDatasets(_, _, _, _)
AddDatasets(labels, label, datasets, i) ==
    IF i > Len(datasets) \/ i > Len(DatasetNumbers) THEN labels
    ELSE AddDatasets(DictSet(labels, label \o <<"_dataset", DatasetNumbers[i]>>,
                             datasets[i]),
                     label, datasets, i + 1)

\* The loop over config["tree"]["figures"].items() that fills
\* config["labels"].
RECURSIVE GatherLabels(_, _)
GatherLabels(figures, labels) ==
    IF Len(figures) = 0 THEN labels
    ELSE LET label == figures[1].k
             value == figures[1].v
             named == IF value.script.kind # "none"
                      THEN DictSet(labels, label \o <<"_script">>, value.script.s)
                      ELSE labels
         IN  GatherLabels(Tail(figures), AddDatasets(named, label, value.datasets, 1))

\* The statements of the module in their order.
StageOrder == <<"zenodo", "overleaf", "tree", "dependencies", "labels", "save">>

\* An exception leaves the module; otherwise the next statement runs.
StageAfterIgnoring(raised, next) == next

StageAfter(raised, next) == IF raised # "none" THEN "raised" ELSE next

\* The configurations tried.  `zenodo`: no deposit, a deposit with a file
\* inside an archive, a deposit whose declaration holds a list.
\* `overleaf`: empty, or with a `push` that is not a list.
\* `dependencies`: none, one of the manuscript, one of the script "s/s.py"
\* that is a file of the deposit.  `tex_files_out`: empty or "t/b".
Deposit(raw) == [host |-> "zenodo", deposit_id |-> <<"7">>, id_type |-> "version",
                 raw |-> raw]

ZenodoConfigs ==
    { <<>>, <<Deposit(MapVal(<<Entry(KeyInside, None)>>))>>,
      <<Deposit(MapVal(<<Entry(KeyFile, ListVal)>>))>> }

OverleafConfigs ==
    { [id |-> Missing, auto_commit |-> Missing, push |-> ps, pull |-> Missing] :
      ps \in {Missing, Str(<<"t", "/", "a">>)} }

ScriptPath == <<"s", "/", "s", ".", "p", "y">>

DependencyConfigs ==
    { <<>>, <<Entry(ms_tex, << <<"u">> >>)>>,
      <<Entry(ScriptPath, << <<"d", "/", "a", "/", "x">> >>)>> }

TexFilesOut == { <<>>, << <<"t", "/", "b">> >> }

\* The artifacts of the diagnostic compilation tried.  A figure block is
\* one of: a caption, the graphic "a" and the label "x"; the graphic "b"
\* and the label "x"; the graphic "b" alone; the graphic "b" under the
\* label "free-floating-dynamic"; a label before its caption; the graphic
\* "a" with the script "s.py" and the label "y".  The artifact holds at
\* most MaxFigures blocks, no graphic or the graphic "b" at the root, and
\* no \graphicspath, the path "f", or a declaration without a group.
MaxFigures == 2

Blocks ==
    { << TextElement("CAPTION", <<>>), TextElement("GRAPHICS", <<"a">>),
         TextElement("LABEL", LabelX) >>,
      << TextElement("GRAPHICS", <<"b">>), TextElement("LABEL", LabelX) >>,
      << TextElement("GRAPHICS", <<"b">>) >>,
      << TextElement("GRAPHICS", <<"b">>), TextElement("LABEL", FreeFloatingDynamic) >>,
      << TextElement("LABEL", LabelX), TextElement("CAPTION", <<>>) >>,
      << TextElement("GRAPHICS", <<"a">>), TextElement("SCRIPT", <<"s", ".", "p", "y">>),
         TextElement("LABEL", LabelY) >> }

Artifacts ==
    { [graphicspath |-> gp, figures |-> f, graphics |-> g] :
      gp \in { <<>>, << << <<"f">> >> >>, << <<>> >> },
      f \in BoundedSeq(Blocks, MaxFigures),
      g \in { <<>>, << <<"b">> >> } }

NoArtifact == [graphicspath |-> <<>>, figures |-> <<>>, graphics |-> <<>>]

\* The names in the static-figures directory.
StaticNames == { {}, { <<"a">> } }

InitPreprocess ==
    /\ prep \in {[pc |-> "zenodo", stages |-> <<>>, engine |-> 0, raised |-> "none",
                  zenodo |-> z, deposits |-> <<>>, overleaf |-> o,
                  declared |-> d, dependencies |-> d, tex_files_out |-> t,
                  xml |-> NoArtifact, static |-> {}, xmlfile |-> "absent",
                  tree |-> <<>>, labels |-> <<>>, present |-> {},
                  config_json |-> <<>>] :
                 z \in ZenodoConfigs, o \in OverleafConfigs,
                 d \in DependencyConfigs, t \in TexFilesOut}
    /\ ver = Idle /\ conda = Idle /\ tex = Idle /\ ext = Idle
    /\ zen = Idle /\ ovl = Idle /\ fig = Idle

\* parse_zenodo_datasets()
StageZenodo ==
    /\ prep.pc = "zenodo"
    /\ LET r == ParseDeposits(prep.zenodo, <<>>)
       IN  prep' = [prep EXCEPT !.pc = StageAfter(r.raised, "overleaf"),
                                !.stages = Append(@, "zenodo"),
                                !.raised = r.raised,
                                !.deposits = r.deposits]
    /\ UNCHANGED <<ver, conda, tex, ext, zen, ovl, fig>>

\* parse_overleaf()
StageOverleaf ==
    /\ prep.pc = "overleaf"
    /\ LET r == parse_overleaf(prep.overleaf)
       IN  prep' = [prep EXCEPT !.pc = StageAfter(r.raised, "tree"),
                                !.stages = Append(@, "overleaf"),
                                !.raised = IF r.raised # "none" THEN r.raised ELSE @,
                                !.overleaf = IF r.raised # "none" THEN @ ELSE r.overleaf]
    /\ UNCHANGED <<ver, conda, tex, ext, zen, ovl, fig>>

\* config["tree"] = get_json_tree() for one outcome of the diagnostic
\* compilation: the exit status returncode, whether showyourwork.xml is
\* there afterwards, the artifact xml and the static directory found.
GetJsonTree(returncode, exists, xml, static) ==
    LET t == get_json_tree(xml, static, prep.dependencies, prep.deposits,
                           prep.tex_files_out)
        raised == IF DiagnosticCompileFailed(returncode) THEN "TectonicError"
                  ELSE IF ~exists THEN "MissingXMLFile"
                  ELSE t.raised
        read   == ~DiagnosticCompileFailed(returncode) /\ exists
    IN  prep' = [prep EXCEPT !.pc = StageAfter(raised, "dependencies"),
                             !.stages = Append(@, "tree"),
                             !.engine = @ + 1,
                             !.raised = IF raised # "none" THEN raised ELSE @,
                             !.xml = IF read THEN xml ELSE @,
                             !.static = IF read THEN static ELSE @,
                             !.xmlfile = IF read THEN "wrapped"
                                         ELSE IF exists THEN "raw" ELSE "absent",
                             !.tree = IF raised = "none" THEN t.figures ELSE @,
                             !.present = IF raised = "none"
                                         THEN @ \cup {"tree"} ELSE @]

\* The third statement of the module.  The artifact and the static
\* directory matter only when the artifact is read.
StageTree ==
    /\ prep.pc = "tree"
    /\ \E returncode \in {0, 1}, exists \in BOOLEAN :
           IF ~DiagnosticCompileFailed(returncode) /\ exists
           THEN \E xml \in Artifacts, static \in StaticNames :
                    GetJsonTree(returncode, exists, xml, static)
           ELSE GetJsonTree(returncode, exists, NoArtifact, {})
    /\ UNCHANGED <<ver, conda, tex, ext, zen, ovl, fig>>

\* Make all of the graphics dependencies of the article.
StageDependencies ==
    /\ prep.pc = "dependencies"
    /\ prep' = [prep EXCEPT !.pc = "labels",
                            !.stages = Append(@, "dependencies"),
                            !.dependencies = MakeDependencies(@, prep.tree),
                            !.present = @ \cup {"dependencies"}]
    /\ UNCHANGED <<ver, conda, tex, ext, zen, ovl, fig>>

\* Gather the figure script and dataset info.
StageLabels ==
    /\ prep.pc = "labels"
    /\ prep' = [prep EXCEPT !.pc = "save",
                            !.stages = Append(@, "labels"),
                            !.labels = GatherLabels(prep.tree, <<>>),
                            !.present = @ \cup {"labels"}]
    /\ UNCHANGED <<ver, conda, tex, ext, zen, ovl, fig>>

\* Save the config file: json.dumps(config) written to config["config_json"];
\* the file is kept as the keys of the configuration it holds.
StageSave ==
    /\ prep.pc = "save"
    /\ prep' = [prep EXCEPT !.pc = "done",
                            !.stages = Append(@, "save"),
                            !.config_json = <<[tree |-> prep.tree,
                                               labels |-> prep.labels,
                                               dependencies |-> prep.dependencies,
                                               keys |-> prep.present]>>]
    /\ UNCHANGED <<ver, conda, tex, ext, zen, ovl, fig>>

NextPreprocess ==
    \/ StageZenodo
    \/ StageOverleaf
    \/ StageTree
    \/ StageDependencies
    \/ StageLabels
    \/ StageSave

SpecPreprocess == InitPreprocess /\ [][NextPreprocess]_vars

IsPrefix(s, t) == Len(s) <= Len(t) /\ SubSeq(t, 1, Len(s)) = s

\* A block of the artifact read breaks a rule of check_figure_format.
SomeBlockMalformed ==
    \E i \in 1..Len(prep.xml.figures) :
        check_figure_format(prep.xml.figures[i]).pc = "raised"

\* C11: the stages run in the order Zenodo normalization, Overleaf
\* validation, diagnostic compilation and figure extraction, finalization
\* (dependencies, labels, save); a failure of any stage aborts at once: the
\* run stays at the stage that raised, no later stage runs, and
\* `config_json` is written only by a run in which every stage succeeded;
\* the engine is invoked once, and never after a Zenodo or Overleaf
\* configuration failure.
C11_StagesInOrderFailureAborts ==
    /\ IsPrefix(prep.stages, StageOrder)
    /\ prep.raised # "none" <=> prep.pc = "raised"
    /\ prep.pc \in {"raised", "done"} => ~ENABLED NextPreprocess
    /\ prep.pc = "raised" => prep.config_json = <<>>
    /\ prep.config_json # <<>> =>
           prep.pc = "done" /\ prep.stages = StageOrder /\ prep.raised = "none"
    /\ prep.engine = (IF \E i \in 1..Len(prep.stages) : prep.stages[i] = "tree"
                      THEN 1 ELSE 0)
    /\ (prep.pc = "raised" /\ Last(prep.stages) \in {"zenodo", "overleaf"})
           => prep.engine = 0
    /\ (Len(prep.stages) >= 1 /\ ParseDeposits(prep.zenodo, <<>>).raised # "none")
           => prep.pc = "raised" /\ prep.stages = <<"zenodo">>
    /\ (Len(prep.stages) >= 2 /\ prep.overleaf.push.kind = "str")
           => prep.pc = "raised" /\ prep.stages = <<"zenodo", "overleaf">>
    /\ SomeBlockMalformed
           => prep.pc = "raised" /\ prep.stages = <<"zenodo", "overleaf", "tree">>

\* C11's case: the Zenodo and Overleaf stages passed, the engine ran, and a
\* malformed figure block aborted the run before anything was written.
C11_Witness ==
    /\ prep.pc = "raised"
    /\ prep.raised = "FigureFormatError"
    /\ prep.stages = <<"zenodo", "overleaf", "tree">>
    /\ Len(prep.deposits) = 1
    /\ prep.config_json = <<>>

\* The graphics of every entry of the tree, posix-normalized.
TreeGraphics ==
    UNION { {AsPosix(PathParts(prep.tree[i].v.graphics[j])) :
                j \in 1..Len(prep.tree[i].v.graphics)} :
            i \in 1..Len(prep.tree) }

\* C12: once the preprocessor completes, `tree`, `labels` and
\* `dependencies[ms_tex]` are present; every graphic of every entry of the
\* tree (the labeled figures and the two free-floating entries) is,
\* posix-normalized, in `dependencies[ms_tex]`; the dependencies the user
\* declared for the manuscript come first in it, and the dependencies
\* declared for other keys are unchanged; the file written holds them.
C12_TreeLabelsDependenciesConsistent ==
    prep.pc = "done" =>
        /\ {"tree", "labels", "dependencies"} \subseteq prep.present
        /\ DictHas(prep.tree, FreeFloatingDynamic)
        /\ DictHas(prep.tree, FreeFloatingStatic)
        /\ DictHas(prep.dependencies, ms_tex)
        /\ TreeGraphics \subseteq SeqRange(DictGet(prep.dependencies, ms_tex))
        /\ IsPrefix(IF DictHas(prep.declared, ms_tex)
                    THEN DictGet(prep.declared, ms_tex) ELSE <<>>,
                    DictGet(prep.dependencies, ms_tex))
        /\ \A i \in 1..Len(prep.declared) :
               prep.declared[i].k # ms_tex =>
                   /\ DictHas(prep.dependencies, prep.declared[i].k)
                   /\ DictGet(prep.dependencies, prep.declared[i].k) = prep.declared[i].v
        /\ prep.config_json = <<[tree |-> prep.tree, labels |-> prep.labels,
                                 dependencies |-> prep.dependencies,
                                 keys |-> prep.present]>>

\* C12's case: a completed run whose manuscript had a declared dependency,
\* a labeled figure with a graphic and a free-floating graphic.
C12_Witness ==
    /\ prep.pc = "done"
    /\ DictHas(prep.declared, ms_tex)
    /\ DictHas(prep.tree, LabelX)
    /\ Len(DictGet(prep.tree, LabelX).graphics) >= 1
    /\ Len(DictGet(prep.tree, FreeFloatingDynamic).graphics) >= 1
    /\ Len(DictGet(prep.dependencies, ms_tex)) >= 3

\* The graphic is in the `graphics` of some entry of the tree.
InTree(graphic) ==
    \E i \in 1..Len(prep.tree) : graphic \in SeqRange(prep.tree[i].v.graphics)

\* C14: no graphic is lost by get_json_tree.  For every artifact whose
\* blocks pass validation (two blocks may carry the same label, a label may
\* be one of the reserved keys), every resolved graphic of every labeled
\* block, and every free-floating graphic (of the root or of an unlabeled
\* block) that is not in `tex_files_out`, is in the `graphics` of some entry
\* of the returned tree, and in `dependencies[ms_tex]` once the run is done.
C14_NoGraphicLost ==
    "tree" \in prep.present =>
        LET gp   == GraphicsPath(prep.xml.graphicspath).path
            kept(g) == /\ InTree(g)
                       /\ prep.pc = "done" =>
                              AsPosix(PathParts(g))
                                  \in SeqRange(DictGet(prep.dependencies, ms_tex))
        IN  /\ \A i \in 1..Len(prep.xml.figures) :
                   LET block    == prep.xml.figures[i]
                       graphics == GraphicsOf(gp, TextsOf(block, "GRAPHICS")).graphics
                   IN  \A g \in SeqRange(graphics) :
                           (Len(TextsOf(block, "LABEL")) > 0
                                \/ g \notin SeqRange(prep.tex_files_out))
                               => kept(g)
            /\ \A g \in SeqRange(GraphicsOf(gp, prep.xml.graphics).graphics) :
                   g \notin SeqRange(prep.tex_files_out) => kept(g)

====
